---- MODULE Spec2Model ----
(***************************************************************************)
(* Loggen: the post lifecycle of server/index.ts (pin / unpin, archive /   *)
(* unarchive, the 30-day auto-archive sweep run by GET /api/logs, edit and *)
(* delete), as a state machine over the LogMessage table; the rows a post  *)
(* owns (signatures, comments, reactions) and the points of a meeting, as  *)
(* state machines over their tables.                                       *)
(*                                                                         *)
(* Spec is the post lifecycle, each request one step.  SweepSpec runs GET  *)
(* /api/logs statement by statement, two requests at a time.  SignSpec,    *)
(* CommentSpec and ReactionSpec are the requests on one kind of owned row, *)
(* EditSpec the edits with blank messages, ByIdSpec the requests that name *)
(* a row by id, MeetingSpec the meeting points.  FieldSpec edits the       *)
(* points field by field, ScopeSpec reaches them through either of two     *)
(* meetings, ArchiveSpec takes a meeting from its scheduling to the        *)
(* archive.  AdminSpec is the routes behind authenticateToken and the      *)
(* routes without a middleware, requests with every kind of token.         *)
(* PinSpec runs POST /api/logs/:id/pin statement by statement, two         *)
(* requests at a time.                                                     *)
(*                                                                         *)
(* Timestamps: the store keeps TIMESTAMP(3) values (milliseconds).  TLC    *)
(* integers are 32 bits wide and 30 days of milliseconds do not fit, so    *)
(* the model's clock counts units of 1000 ms; every comparison of the code *)
(* is kept as the code writes it.                                          *)
(***************************************************************************)
EXTENDS Integers, Sequences, FiniteSets, TLC

VARIABLES
    logs,      \* the LogMessage table: id -> row, for the rows that exist
    nextId,    \* the SERIAL sequence of LogMessage.id
    now,       \* the server clock (Date.now()), in clock units
    ticks,     \* how often the clock has advanced (bounds the model)
    ops,       \* how many requests the server has answered, those that added a row to
               \* ReadSignature, Comment, Reaction or MeetingPoint aside (bounds the model)
    res,       \* the response sent by the step just taken (NoRes after a clock step)
    hist,      \* history of each existing row: what was applied to it, and when
    signatures,     \* the ReadSignature table: its rows, oldest first
    comments,       \* the Comment table: id -> row, for the rows that exist
    nextCommentId,  \* the SERIAL sequence of Comment.id
    reactions,      \* the Reaction table: its rows, oldest first
    meetings,       \* the Meeting table: id -> row, for the rows that exist
    nextMeetingId,  \* the SERIAL sequence of Meeting.id
    points,         \* the MeetingPoint table: id -> row, for the rows that exist
    nextPointId,    \* the SERIAL sequence of MeetingPoint.id
    sweeps,         \* the GET /api/logs requests in flight: what each has left to do
    batch,          \* the GET /api/logs requests that overlap, or follow one another
                    \* with nothing in between: what the store was when they began
    pins,           \* the POST /api/logs/:id/pin requests in flight: what each has read
    toggles         \* the POST /api/logs/:id/pin requests on one post that overlap, or
                    \* follow one another: what the post was when they began

threadVars == <<signatures, comments, nextCommentId, reactions>>
meetingVars == <<meetings, nextMeetingId, points, nextPointId>>
sweepVars == <<sweeps, batch, pins, toggles>>

vars == <<logs, nextId, now, ticks, ops, res, hist, threadVars, meetingVars, sweepVars>>

----------------------------------------------------------------------------
(* Bounds *)

MaxLogs == 2
MaxTicks == 2
MaxOps == 4
MaxRows == 3

----------------------------------------------------------------------------
(* Program constants *)

ARCHIVE_DAYS == 30
MS_PER_DAY == (24 * 60 * 60 * 1000) \div 1000

\* the clock advances by one day or by the whole archive period
TickSteps == {MS_PER_DAY, ARCHIVE_DAYS * MS_PER_DAY}

----------------------------------------------------------------------------
(* Values *)

\* a nullable column: <<>> is NULL, <<v>> holds v
Null == <<>>
Some(v) == <<v>>
ValueOf(n) == n[1]

\* strings are sequences of characters, so that trim() is computed
IsSpace(c) == c = " "

RECURSIVE TrimStart(_)
TrimStart(s) ==
    IF s = <<>> THEN <<>>
    ELSE IF IsSpace(Head(s)) THEN TrimStart(Tail(s)) ELSE s

RECURSIVE TrimEnd(_)
TrimEnd(s) ==
    IF s = <<>> THEN <<>>
    ELSE IF IsSpace(s[Len(s)]) THEN TrimEnd(SubSeq(s, 1, Len(s) - 1)) ELSE s

Trim(s) == TrimEnd(TrimStart(s))

\* JavaScript truthiness of an optional string: undefined and "" are falsy
Absent == <<"undefined">>
Truthy(s) == s # Absent /\ s # <<>>

\* request inputs: ids, and the JSON bodies of POST /api/logs and PUT /api/logs/:id
LogIds == 1..MaxLogs
AppVersion == <<"v">>

CreateBodies ==
    {[title |-> <<"t", " ">>, message |-> <<" ", "a">>, author |-> <<"e">>, imageUrl |-> <<"u">>],
     [title |-> Absent, message |-> <<>>, author |-> <<"e">>, imageUrl |-> Absent],
     [title |-> Absent, message |-> <<"b">>, author |-> Absent, imageUrl |-> Absent]}

EditBodies ==
    {[title |-> Absent, message |-> <<" ", "b">>, imageUrl |-> Absent],
     [title |-> <<"t", " ">>, message |-> Absent, imageUrl |-> Absent]}

\* what the Authorization header carries: nothing, a string that is no token of
\* JWT_SECRET, a token of JWT_SECRET past its expiresIn, the token of POST
\* /api/auth/login ({type: 'shared'}), the token of POST /api/admin/login ({id,
\* username})
Tokens == {"none", "garbage", "expired", "shared", "admin"}

----------------------------------------------------------------------------
(* Responses *)

\* op, id: the request; status, flag, list: the response; arg: what the request
\* body or the response carried, for the requests where a claim asks; meetingId:
\* the :id of a route on the points of a meeting; tok: the token of a request to
\* a route behind authenticateToken
NoRes == [op |-> "none", id |-> 0, status |-> 0, flag |-> FALSE, list |-> <<>>, arg |-> <<>>,
          meetingId |-> 0, tok |-> "-"]
Res(op, id, status) ==
    [op |-> op, id |-> id, status |-> status, flag |-> FALSE, list |-> <<>>, arg |-> <<>>,
     meetingId |-> 0, tok |-> "-"]

\* jwt.verify(token, JWT_SECRET) returns the payload, or throws
Verifies(tok) == tok \in {"shared", "admin"}

\* authenticateSharedPassword: 0 when next() is called, else the status sent
authenticateSharedPassword(tok) ==
    IF tok = "none" THEN 401
    ELSE IF ~Verifies(tok) THEN 403
    ELSE IF tok # "shared" THEN 403
    ELSE 0

\* authenticateToken: 0 when next() is called, else the status sent
authenticateToken(tok) ==
    IF tok = "none" THEN 401
    ELSE IF ~Verifies(tok) THEN 403
    ELSE 0

----------------------------------------------------------------------------
(* History of a row *)

\* timerOp, timerAt: the last of pin / unpin / unarchive applied to the row, and
\* its time; everUnpinned: togglePin has unpinned the row at some point;
\* unarchivedAt: the time of the row's last unarchive
NewHist == [timerOp |-> "none", timerAt |-> now,
            everUnpinned |-> FALSE, unarchivedAt |-> Null]

----------------------------------------------------------------------------
(* The sweep *)

\* faulty variant: the where clause counts from createdAt alone
SweepMatchesCreatedAtOnly(log, cutoffDate) ==
    /\ log.archived = FALSE
    /\ log.pinned = FALSE
    /\ log.createdAt < cutoffDate

\* faulty variant: the where clause does not ask for archived = false
SweepMatchesArchivedToo(log, cutoffDate) ==
    /\ log.pinned = FALSE
    /\ \/ log.unpinnedAt = Null /\ log.createdAt < cutoffDate
       \/ log.unpinnedAt # Null /\ ValueOf(log.unpinnedAt) < cutoffDate

\* the where clause of autoArchiveOldPosts' updateMany
SweepMatches(log, cutoffDate) ==
    /\ log.archived = FALSE
    /\ log.pinned = FALSE
    /\ \/ log.unpinnedAt = Null /\ log.createdAt < cutoffDate
       \/ log.unpinnedAt # Null /\ ValueOf(log.unpinnedAt) < cutoffDate

autoArchiveOldPosts(table, t) ==
    LET cutoffDate == t - ARCHIVE_DAYS * MS_PER_DAY
    IN [id \in DOMAIN table |->
          IF SweepMatches(table[id], cutoffDate)
          THEN [table[id] EXCEPT !.archived = TRUE, !.archivedAt = Some(t)]
          ELSE table[id]]

\* the helper the server declares for the same decision
shouldAutoArchive(log, t) ==
    IF log.pinned \/ log.archived THEN FALSE
    ELSE LET referenceDate == IF log.unpinnedAt # Null THEN ValueOf(log.unpinnedAt)
                              ELSE log.createdAt
         IN (t - referenceDate) >= ARCHIVE_DAYS * MS_PER_DAY

\* findMany ... orderBy key desc: any order of the rows that is descending in key
RECURSIVE SeqsOf(_)
SeqsOf(S) ==
    IF S = {} THEN {<<>>}
    ELSE UNION {{<<x>> \o s : s \in SeqsOf(S \ {x})} : x \in S}

OrderedDesc(ids, key) ==
    {s \in SeqsOf(ids) : \A i \in 1..Len(s) : \A j \in 1..Len(s) :
        i < j => key[s[i]] >= key[s[j]]}

----------------------------------------------------------------------------
(* Foreign keys *)

\* Comment_parentId_fkey ... ON DELETE CASCADE: the rows that go when the rows
\* of gone are deleted, the replies of a deleted row being deleted in turn
RECURSIVE CascadeComments(_, _)
CascadeComments(table, gone) ==
    LET more == {c \in DOMAIN table \ gone :
                    /\ table[c].parentId # Null
                    /\ ValueOf(table[c].parentId) \in gone}
    IN IF more = {} THEN gone ELSE CascadeComments(table, gone \cup more)

----------------------------------------------------------------------------
(* Requests in flight *)

\* the GET /api/logs requests that may be in flight together
Requests == {1, 2}

\* pc: where the request is; t: the Date.now() its sweep read; todo: the rows
\* its updateMany has yet to visit
Idle == [pc |-> "idle", t |-> 0, todo |-> {}]

NoSweep == \A r \in Requests : sweeps[r].pc = "idle"
InFlight == Cardinality({r \in Requests : sweeps[r].pc # "idle"})

\* table, t: the LogMessage table and the clock when the first request of the
\* batch began; same: every request of the batch read that clock value; runs:
\* how many requests began; overlap: one began while another was in flight;
\* by: the requests whose updateMany archived a row
NoBatch == [table |-> <<>>, t |-> 0, same |-> TRUE, runs |-> 0,
            overlap |-> FALSE, by |-> {}]

\* pc: where the request is; id: the post; log: the row its findUnique returned
NotPinning == [pc |-> "idle", id |-> 0, log |-> <<>>]

NoPin == \A r \in Requests : pins[r].pc = "idle"
Pinning(id) == {r \in Requests : pins[r].pc # "idle" /\ pins[r].id = id}
PinsInFlight == Cardinality({r \in Requests : pins[r].pc # "idle"})

\* id: the post; before: its row when the first request of the batch began; n:
\* how many requests on the post began; overlap: one began while another was in
\* flight; done: how many have written
NoToggles == [id |-> 0, before |-> <<>>, n |-> 0, overlap |-> FALSE, done |-> 0]

----------------------------------------------------------------------------
(* Actions *)

Init ==
    /\ logs = <<>>
    /\ nextId = 1
    /\ now = 0
    /\ ticks = 0
    /\ ops = 0
    /\ res = NoRes
    /\ hist = <<>>
    /\ signatures = <<>>
    /\ comments = <<>>
    /\ nextCommentId = 1
    /\ reactions = <<>>
    /\ meetings = <<>>
    /\ nextMeetingId = 1
    /\ points = <<>>
    /\ nextPointId = 1
    /\ sweeps = [r \in Requests |-> Idle]
    /\ batch = NoBatch
    /\ pins = [r \in Requests |-> NotPinning]
    /\ toggles = NoToggles

Tick ==
    /\ ticks < MaxTicks
    /\ \E d \in TickSteps : now' = now + d
    /\ ticks' = ticks + 1
    /\ res' = NoRes
    /\ UNCHANGED <<logs, nextId, ops, hist>>
    /\ UNCHANGED <<threadVars, meetingVars, sweepVars>>

\* a request is served
Served ==
    /\ ops < MaxOps
    /\ ops' = ops + 1

\* app.<verb>(route, authenticateSharedPassword, handler): the middleware answers
\* 401 or 403 and the route's handler is not reached ...
Unauthorized ==
    \E tok \in Tokens :
      /\ authenticateSharedPassword(tok) # 0
      /\ res' = [Res("auth", 0, authenticateSharedPassword(tok)) EXCEPT !.tok = tok]
      /\ Served
      /\ UNCHANGED <<logs, nextId, now, ticks, hist>>
      /\ UNCHANGED <<threadVars, meetingVars, sweepVars>>

\* ... or calls next(), and the handler runs
Authorized == \E tok \in Tokens : authenticateSharedPassword(tok) = 0

Rejected(op, id, status) ==
    /\ res' = Res(op, id, status)
    /\ Served
    /\ UNCHANGED <<logs, nextId, now, ticks, hist>>
    /\ UNCHANGED <<threadVars, meetingVars, sweepVars>>

\* the columns POST /api/logs does not set take the defaults of the LogMessage
\* table: createdAt is CURRENT_TIMESTAMP; a post starts unpinned and active
NewLogDefaults(t) ==
    [createdAt |-> t, pinned |-> FALSE, unpinnedAt |-> Null,
     archived |-> FALSE, archivedAt |-> Null]

\* POST /api/logs: the data of the create
CreateData(body, t) ==
    LET d == NewLogDefaults(t)
    IN [title |-> IF Truthy(body.title) THEN Trim(body.title) ELSE <<>>,
        message |-> body.message,
        author |-> body.author,
        version |-> AppVersion,
        imageUrl |-> IF Truthy(body.imageUrl) THEN Some(body.imageUrl) ELSE Null,
        createdAt |-> d.createdAt,
        pinned |-> d.pinned,
        unpinnedAt |-> d.unpinnedAt,
        archived |-> d.archived,
        archivedAt |-> d.archivedAt]

CreateLog ==
    /\ Authorized
    /\ \E body \in CreateBodies :
        IF ~Truthy(body.message) \/ ~Truthy(body.author) THEN Rejected("create", 0, 400)
        ELSE /\ nextId <= MaxLogs
             /\ logs' = [id \in DOMAIN logs \cup {nextId} |->
                  IF id = nextId
                  THEN CreateData(body, now)
                  ELSE logs[id]]
             /\ hist' = [id \in DOMAIN logs \cup {nextId} |->
                  IF id = nextId THEN NewHist ELSE hist[id]]
             /\ nextId' = nextId + 1
             /\ res' = Res("create", nextId, 201)
             /\ Served
             /\ UNCHANGED <<now, ticks>>
             /\ UNCHANGED <<threadVars, meetingVars, sweepVars>>

\* PUT /api/logs/:id: the data of the update
EditData(log, body) ==
    [log EXCEPT !.title = IF Truthy(body.title) THEN Trim(body.title) ELSE <<>>,
                !.message = Trim(body.message),
                !.imageUrl = IF Truthy(body.imageUrl) THEN Some(body.imageUrl) ELSE Null]

\* the handler, for a request whose body is one of bodies
EditLogOf(bodies) ==
    /\ Authorized
    /\ \E id \in LogIds, body \in bodies :
        IF ~Truthy(body.message) \/ id \notin DOMAIN logs
        THEN /\ res' = [Res("edit", id, IF ~Truthy(body.message) THEN 400 ELSE 500)
                          EXCEPT !.arg = body.message]
             /\ Served
             /\ UNCHANGED <<logs, nextId, now, ticks, hist>>
             /\ UNCHANGED <<threadVars, meetingVars, sweepVars>>
        ELSE /\ logs' = [logs EXCEPT ![id] = EditData(logs[id], body)]
             /\ hist' = hist
             /\ res' = [Res("edit", id, 200) EXCEPT !.arg = body.message]
             /\ Served
             /\ UNCHANGED <<nextId, now, ticks>>
             /\ UNCHANGED <<threadVars, meetingVars, sweepVars>>

EditLog == EditLogOf(EditBodies)

\* bodies whose message shows no text: spaces, an empty paragraph, the empty string
BlankEditBodies ==
    {[title |-> Absent, message |-> <<" ">>, imageUrl |-> Absent],
     [title |-> Absent, message |-> <<"<", "p", ">", " ", "<", "/", "p", ">">>, imageUrl |-> Absent],
     [title |-> Absent, message |-> <<>>, imageUrl |-> Absent]}

EditLogBlank == EditLogOf(BlankEditBodies)

\* EditForm: message.replace(/<[^>]*>/g, '') removes every run from a "<" to the
\* next ">"
RECURSIVE StripTags(_)
StripTags(s) ==
    IF s = <<>> THEN <<>>
    ELSE IF Head(s) = "<" /\ \E i \in 2..Len(s) : s[i] = ">"
    THEN LET close == CHOOSE i \in 2..Len(s) :
                         s[i] = ">" /\ \A j \in 2..(i - 1) : s[j] # ">"
         IN StripTags(SubSeq(s, close + 1, Len(s)))
    ELSE <<Head(s)>> \o StripTags(Tail(s))

plainText(message) == Trim(StripTags(message))

\* create and edit, the edits with blank messages among them
EditNext ==
    \/ CreateLog
    \/ EditLog
    \/ EditLogBlank

EditSpec == Init /\ [][EditNext]_vars

\* faulty variant: "older than 30 days" read strictly
IsOldPostStrict(log, t) == (t - log.createdAt) > ARCHIVE_DAYS * MS_PER_DAY

\* POST /api/logs/:id/pin
IsOldPost(log, t) == (t - log.createdAt) >= ARCHIVE_DAYS * MS_PER_DAY

\* faulty variants: unpinning does not stamp unpinnedAt; pinning does not clear
\* it; pinning takes the post out of the archive
PinDataNoStamp(log, t) ==
    [log EXCEPT !.pinned = ~log.pinned, !.unpinnedAt = Null]

PinDataNoClear(log, t) ==
    LET willBeUnpinned == log.pinned
    IN [log EXCEPT !.pinned = ~log.pinned,
                   !.unpinnedAt = IF willBeUnpinned THEN Some(t) ELSE log.unpinnedAt]

PinDataUnarchives(log, t) ==
    LET willBeUnpinned == log.pinned
    IN [log EXCEPT !.pinned = ~log.pinned,
                   !.unpinnedAt = IF willBeUnpinned THEN Some(t) ELSE Null,
                   !.archived = FALSE,
                   !.archivedAt = Null]

PinData(log, t) ==
    LET willBeUnpinned == log.pinned
    IN [log EXCEPT !.pinned = ~log.pinned,
                   !.unpinnedAt = IF willBeUnpinned THEN Some(t) ELSE Null]

UnpinningOldPost(log, t) ==
    LET willBeUnpinned == log.pinned
    IN willBeUnpinned /\ IsOldPost(log, t)

TogglePin ==
    /\ Authorized
    /\ \E id \in LogIds :
        IF id \notin DOMAIN logs THEN Rejected("pin", id, 404)
        ELSE LET op == IF logs[id].pinned THEN "unpin" ELSE "pin" IN
             /\ logs' = [logs EXCEPT ![id] = PinData(logs[id], now)]
             /\ hist' = [hist EXCEPT ![id].timerOp = op,
                                     ![id].timerAt = now,
                                     ![id].everUnpinned = @ \/ op = "unpin"]
             /\ res' = [Res("pin", id, 200) EXCEPT !.flag = UnpinningOldPost(logs[id], now)]
             /\ Served
             /\ UNCHANGED <<nextId, now, ticks>>
             /\ UNCHANGED <<threadVars, meetingVars, sweepVars>>

\* faulty variant: archive leaves the pin in place
ArchiveDataKeepsPin(log, t) ==
    [log EXCEPT !.archived = TRUE, !.archivedAt = Some(t)]

\* POST /api/logs/:id/archive
ArchiveData(log, t) ==
    [log EXCEPT !.archived = TRUE, !.archivedAt = Some(t), !.pinned = FALSE]

ArchiveLog ==
    /\ Authorized
    /\ \E id \in LogIds :
        IF id \notin DOMAIN logs THEN Rejected("archive", id, 500)
        ELSE /\ logs' = [logs EXCEPT ![id] = ArchiveData(logs[id], now)]
             /\ hist' = hist
             /\ res' = Res("archive", id, 200)
             /\ Served
             /\ UNCHANGED <<nextId, now, ticks>>
             /\ UNCHANGED <<threadVars, meetingVars, sweepVars>>

\* faulty variant: unarchive leaves archivedAt in place
UnarchiveDataKeepsArchivedAt(log, t) ==
    [log EXCEPT !.archived = FALSE, !.unpinnedAt = Some(t)]

\* POST /api/logs/:id/unarchive
UnarchiveData(log, t) ==
    [log EXCEPT !.archived = FALSE, !.archivedAt = Null, !.unpinnedAt = Some(t)]

UnarchiveLog ==
    /\ Authorized
    /\ \E id \in LogIds :
        IF id \notin DOMAIN logs THEN Rejected("unarchive", id, 500)
        ELSE /\ logs' = [logs EXCEPT ![id] = UnarchiveData(logs[id], now)]
             /\ hist' = [hist EXCEPT ![id].timerOp = "unarchive",
                                     ![id].timerAt = now,
                                     ![id].unarchivedAt = Some(now)]
             /\ res' = Res("unarchive", id, 200)
             /\ Served
             /\ UNCHANGED <<nextId, now, ticks>>
             /\ UNCHANGED <<threadVars, meetingVars, sweepVars>>

\* DELETE /api/logs/:id; the foreign keys of ReadSignature, Comment and Reaction
\* on LogMessage are ON DELETE CASCADE
DeleteLog ==
    /\ Authorized
    /\ \E id \in LogIds :
        IF id \notin DOMAIN logs THEN Rejected("delete", id, 500)
        ELSE LET gone == CascadeComments(comments,
                             {c \in DOMAIN comments : comments[c].logId = id}) IN
             /\ logs' = [i \in DOMAIN logs \ {id} |-> logs[i]]
             /\ hist' = [i \in DOMAIN logs \ {id} |-> hist[i]]
             /\ signatures' = SelectSeq(signatures, LAMBDA s : s.logId # id)
             /\ comments' = [c \in DOMAIN comments \ gone |-> comments[c]]
             /\ reactions' = SelectSeq(reactions, LAMBDA r : r.logId # id)
             /\ res' = Res("delete", id, 200)
             /\ Served
             /\ UNCHANGED <<nextId, now, ticks>>
             /\ UNCHANGED <<nextCommentId, meetingVars, sweepVars>>

\* GET /api/logs: the sweep, then the active rows by createdAt desc
GetLogs ==
    /\ Authorized
    /\ LET swept == autoArchiveOldPosts(logs, now)
               active == {id \in DOMAIN swept : swept[id].archived = FALSE}
           IN /\ logs' = swept
              /\ hist' = hist
              /\ \E list \in OrderedDesc(active, [id \in active |-> swept[id].createdAt]) :
                    res' = [Res("getLogs", 0, 200) EXCEPT !.list = list]
              /\ Served
              /\ UNCHANGED <<nextId, now, ticks>>
              /\ UNCHANGED <<threadVars, meetingVars, sweepVars>>

\* GET /api/logs/archived: the archived rows by archivedAt desc (NULLs sort first)
ArchivedKey(log) == IF log.archivedAt = Null THEN now + 1 ELSE ValueOf(log.archivedAt)

GetArchivedLogs ==
    /\ Authorized
    /\ LET archivedIds == {id \in DOMAIN logs : logs[id].archived = TRUE}
           IN /\ \E list \in OrderedDesc(archivedIds, [id \in archivedIds |-> ArchivedKey(logs[id])]) :
                    res' = [Res("getArchived", 0, 200) EXCEPT !.list = list]
              /\ Served
              /\ UNCHANGED <<logs, nextId, now, ticks, hist>>
              /\ UNCHANGED <<threadVars, meetingVars, sweepVars>>

----------------------------------------------------------------------------
(* Signatures, comments and reactions of a post *)

\* the bodies of POST /api/logs/:id/sign
SignNames == {<<"a", " ">>, <<"a">>, <<"b">>, Absent}

\* faulty variant: the unique index is on name alone
ViolatesSignatureKeyOnName(table, row) ==
    \E i \in 1..Len(table) : table[i].name = row.name

\* CREATE UNIQUE INDEX "ReadSignature_logId_name_key": the insert of row fails
ViolatesSignatureKey(table, row) ==
    \E i \in 1..Len(table) : table[i].logId = row.logId /\ table[i].name = row.name

SignatureData(id, name) == [logId |-> id, name |-> Trim(name)]

\* POST /api/logs/:id/sign: 409 on the unique index (P2002), 500 on the foreign key
SignLog ==
    /\ Authorized
    /\ \E id \in LogIds, name \in SignNames :
        IF ~Truthy(name) THEN Rejected("sign", id, 400)
        ELSE IF ViolatesSignatureKey(signatures, SignatureData(id, name))
        THEN /\ res' = [Res("sign", id, 409) EXCEPT !.arg = Trim(name)]
             /\ Served
             /\ UNCHANGED <<logs, nextId, now, ticks, hist>>
             /\ UNCHANGED <<threadVars, meetingVars, sweepVars>>
        ELSE IF id \notin DOMAIN logs THEN Rejected("sign", id, 500)
        ELSE /\ Len(signatures) < MaxRows
             /\ signatures' = Append(signatures, SignatureData(id, name))
             /\ res' = [Res("sign", id, 201) EXCEPT !.arg = Trim(name)]
             /\ UNCHANGED <<logs, nextId, now, ticks, ops, hist>>
             /\ UNCHANGED <<comments, nextCommentId, reactions, meetingVars, sweepVars>>

\* the bodies of POST /api/logs/:id/comments; parentId 0 is a body without parentId
CommentIds == 1..MaxRows
ParentIds == {0} \cup CommentIds
CommentBodies ==
    {[message |-> <<"m", " ">>, author |-> <<"e">>],
     [message |-> <<>>, author |-> <<"e">>]}

CommentData(id, body, parentId) ==
    [message |-> Trim(body.message),
     author |-> Trim(body.author),
     logId |-> id,
     parentId |-> IF parentId # 0 THEN Some(parentId) ELSE Null]

\* POST /api/logs/:id/comments: 500 on the foreign keys Comment_logId_fkey and
\* Comment_parentId_fkey
AddComment ==
    /\ Authorized
    /\ \E id \in LogIds, body \in CommentBodies, parentId \in ParentIds :
        IF ~Truthy(body.message) \/ ~Truthy(body.author)
        THEN Rejected("comment", id, 400)
        ELSE IF id \notin DOMAIN logs \/ (parentId # 0 /\ parentId \notin DOMAIN comments)
        THEN /\ res' = [Res("comment", id, 500) EXCEPT !.arg = <<parentId>>]
             /\ Served
             /\ UNCHANGED <<logs, nextId, now, ticks, hist>>
             /\ UNCHANGED <<threadVars, meetingVars, sweepVars>>
        ELSE /\ nextCommentId <= MaxRows
             /\ comments' = [c \in DOMAIN comments \cup {nextCommentId} |->
                    IF c = nextCommentId
                    THEN CommentData(id, body, parentId)
                    ELSE comments[c]]
             /\ nextCommentId' = nextCommentId + 1
             /\ res' = [Res("comment", id, 201) EXCEPT !.arg = <<parentId>>]
             /\ UNCHANGED <<logs, nextId, now, ticks, ops, hist>>
             /\ UNCHANGED <<signatures, reactions, meetingVars, sweepVars>>

\* DELETE /api/comments/:id
DeleteComment ==
    /\ Authorized
    /\ \E id \in CommentIds :
        IF id \notin DOMAIN comments THEN Rejected("deleteComment", id, 500)
        ELSE LET gone == CascadeComments(comments, {id}) IN
             /\ comments' = [c \in DOMAIN comments \ gone |-> comments[c]]
             /\ res' = Res("deleteComment", id, 200)
             /\ Served
             /\ UNCHANGED <<logs, nextId, now, ticks, hist>>
             /\ UNCHANGED <<signatures, nextCommentId, reactions, meetingVars, sweepVars>>

\* the bodies of POST /api/logs/:id/reactions: the handler takes any string
Emojis == {<<"2">>, <<"1">>, <<"x">>, Absent}

\* POST /api/logs/:id/reactions: 500 on the foreign key Reaction_logId_fkey
AddReaction ==
    /\ Authorized
    /\ \E id \in LogIds, emoji \in Emojis :
        IF ~Truthy(emoji) THEN Rejected("react", id, 400)
        ELSE IF id \notin DOMAIN logs THEN Rejected("react", id, 500)
        ELSE /\ Len(reactions) < MaxRows
             /\ reactions' = Append(reactions, [emoji |-> emoji, logId |-> id])
             /\ res' = [Res("react", id, 201) EXCEPT !.arg = emoji]
             /\ UNCHANGED <<logs, nextId, now, ticks, ops, hist>>
             /\ UNCHANGED <<signatures, comments, nextCommentId, meetingVars, sweepVars>>

\* the keys of a JavaScript object that are array indices: canonical decimal
\* numerals (below 2^32 - 1, which no key of the model reaches)
Digits == <<"0", "1", "2", "3", "4", "5", "6", "7", "8", "9">>
IsDigit(c) == \E i \in 1..Len(Digits) : Digits[i] = c
DigitValue(c) == (CHOOSE i \in 1..Len(Digits) : Digits[i] = c) - 1

IsArrayIndex(key) ==
    /\ key # <<>>
    /\ \A i \in 1..Len(key) : IsDigit(key[i])
    /\ Len(key) = 1 \/ key[1] # "0"

RECURSIVE IndexValue(_)
IndexValue(key) ==
    IF key = <<>> THEN 0
    ELSE 10 * IndexValue(SubSeq(key, 1, Len(key) - 1)) + DigitValue(key[Len(key)])

\* groupReactions' loop: groups lists the properties of the object in the order
\* they were created
RECURSIVE GroupsOf(_, _)
GroupsOf(rs, groups) ==
    IF rs = <<>> THEN groups
    ELSE LET r == Head(rs)
             made == IF \E i \in 1..Len(groups) : groups[i].emoji = r.emoji
                     THEN groups
                     ELSE Append(groups, [emoji |-> r.emoji, count |-> 0])
             counted == [i \in 1..Len(made) |->
                           IF made[i].emoji = r.emoji
                           THEN [made[i] EXCEPT !.count = @ + 1]
                           ELSE made[i]]
         IN GroupsOf(Tail(rs), counted)

\* Object.values: the array-index keys in ascending numeric order, then the
\* other keys in the order they were created
ObjectValues(groups) ==
    LET indexed == {groups[i] : i \in {j \in 1..Len(groups) : IsArrayIndex(groups[j].emoji)}}
        ascending == CHOOSE s \in SeqsOf(indexed) :
                        \A i \in 1..Len(s) : \A j \in 1..Len(s) :
                            i < j => IndexValue(s[i].emoji) < IndexValue(s[j].emoji)
    IN ascending \o SelectSeq(groups, LAMBDA g : ~IsArrayIndex(g.emoji))

groupReactions(rs) == ObjectValues(GroupsOf(rs, <<>>))

\* the reactions GET /api/logs includes with post id: orderBy createdAt asc
ReactionsOf(id) == SelectSeq(reactions, LAMBDA r : r.logId = id)

\* GET /api/logs, and LogList's reaction bar of one of the posts returned
ViewReactions ==
    /\ Authorized
    /\ LET swept == autoArchiveOldPosts(logs, now)
       IN /\ logs' = swept
          /\ \E id \in {i \in DOMAIN swept : swept[i].archived = FALSE} :
                res' = [Res("reactions", id, 200) EXCEPT
                          !.list = groupReactions(ReactionsOf(id))]
    /\ Served
    /\ UNCHANGED <<nextId, now, ticks, hist>>
    /\ UNCHANGED <<threadVars, meetingVars, sweepVars>>

\* the requests on posts and their signatures
SignNext ==
    \/ CreateLog
    \/ DeleteLog
    \/ SignLog

SignSpec == Init /\ [][SignNext]_vars

\* the requests on posts and their comments
CommentNext ==
    \/ CreateLog
    \/ DeleteLog
    \/ AddComment
    \/ DeleteComment

CommentSpec == Init /\ [][CommentNext]_vars

\* the requests on posts and their reactions
ReactionNext ==
    \/ CreateLog
    \/ DeleteLog
    \/ AddReaction
    \/ ViewReactions

ReactionSpec == Init /\ [][ReactionNext]_vars

\* the requests that name a post or a comment by its id
ByIdNext ==
    \/ CreateLog
    \/ EditLog
    \/ TogglePin
    \/ ArchiveLog
    \/ UnarchiveLog
    \/ DeleteLog
    \/ AddComment
    \/ DeleteComment

ByIdSpec == Init /\ [][ByIdNext]_vars

----------------------------------------------------------------------------
(* Meetings and their points *)

\* the ids a request names; the rows a specification lets exist
MeetingIds == {1, 2}
OneMeeting == {1}

\* the requests of an administrator
Admins == {"admin"}
PointIds == 1..MaxRows

\* the scheduledAt of a request body: none, the day after the server started,
\* or a month later
ScheduledAts == {Null, Some(MS_PER_DAY), Some((ARCHIVE_DAYS + 1) * MS_PER_DAY)}

\* app.<verb>(route, authenticateToken, handler): the middleware answers 401 or
\* 403 and the route's handler is not reached
AdminUnauthorized ==
    \E tok \in Tokens :
      /\ authenticateToken(tok) # 0
      /\ res' = [Res("adminAuth", 0, authenticateToken(tok)) EXCEPT !.tok = tok]
      /\ Served
      /\ UNCHANGED <<logs, nextId, now, ticks, hist>>
      /\ UNCHANGED <<threadVars, meetingVars, sweepVars>>

\* answered by a route behind authenticateToken, with a token it lets through
RejectedFor(tok, op, id, status) ==
    /\ res' = [Res(op, id, status) EXCEPT !.tok = tok]
    /\ Served
    /\ UNCHANGED <<logs, nextId, now, ticks, hist>>
    /\ UNCHANGED <<threadVars, meetingVars, sweepVars>>

\* the columns the create does not set take the defaults of the migration:
\* archived false, archivedAt NULL
MeetingData(scheduledAt) ==
    [scheduledAt |-> scheduledAt, archived |-> FALSE, archivedAt |-> Null]

\* POST /api/admin/meetings, with a title and a scheduledAt
CreateMeetingOf(ids, toks, dates) ==
    \E tok \in toks, scheduledAt \in dates :
      /\ authenticateToken(tok) = 0
      /\ IF scheduledAt = Null THEN RejectedFor(tok, "createMeeting", 0, 400)
         ELSE /\ nextMeetingId \in ids
              /\ meetings' = [m \in DOMAIN meetings \cup {nextMeetingId} |->
                     IF m = nextMeetingId THEN MeetingData(ValueOf(scheduledAt))
                     ELSE meetings[m]]
              /\ nextMeetingId' = nextMeetingId + 1
              /\ res' = [Res("createMeeting", nextMeetingId, 200) EXCEPT !.tok = tok]
              /\ Served
              /\ UNCHANGED <<logs, nextId, now, ticks, hist>>
              /\ UNCHANGED <<points, nextPointId, threadVars, sweepVars>>

\* an administrator creates the one meeting
CreateMeeting == CreateMeetingOf(OneMeeting, Admins, {Some(MS_PER_DAY)})

\* the same request: with any scheduledAt, for two meetings, with any token
ScheduleMeeting == CreateMeetingOf(OneMeeting, Admins, ScheduledAts)
CreateMeetings == CreateMeetingOf(MeetingIds, Admins, {Some(MS_PER_DAY)})
CreateMeetingByAny == CreateMeetingOf(OneMeeting, Tokens, ScheduledAts)

\* PUT /api/admin/meetings/:id: title and scheduledAt, each written when truthy
UpdateMeetingBy(toks) ==
    \E tok \in toks, id \in MeetingIds, scheduledAt \in ScheduledAts :
      /\ authenticateToken(tok) = 0
      /\ IF id \notin DOMAIN meetings THEN RejectedFor(tok, "updateMeeting", id, 500)
         ELSE /\ meetings' = [meetings EXCEPT ![id].scheduledAt =
                                  IF scheduledAt # Null THEN ValueOf(scheduledAt) ELSE @]
              /\ res' = [Res("updateMeeting", id, 200) EXCEPT !.tok = tok]
              /\ Served
              /\ UNCHANGED <<logs, nextId, now, ticks, hist>>
              /\ UNCHANGED <<nextMeetingId, points, nextPointId, threadVars, sweepVars>>

UpdateMeeting == UpdateMeetingBy(Admins)
UpdateMeetingByAny == UpdateMeetingBy(Tokens)

\* DELETE /api/admin/meetings/:id; MeetingPoint_meetingId_fkey is ON DELETE CASCADE
DeleteMeetingBy(toks) ==
    \E tok \in toks, id \in MeetingIds :
      /\ authenticateToken(tok) = 0
      /\ IF id \notin DOMAIN meetings THEN RejectedFor(tok, "deleteMeeting", id, 500)
         ELSE /\ meetings' = [m \in DOMAIN meetings \ {id} |-> meetings[m]]
              /\ points' = [p \in {q \in DOMAIN points : points[q].meetingId # id} |-> points[p]]
              /\ res' = [Res("deleteMeeting", id, 200) EXCEPT !.tok = tok]
              /\ Served
              /\ UNCHANGED <<logs, nextId, now, ticks, hist>>
              /\ UNCHANGED <<nextMeetingId, nextPointId, threadVars, sweepVars>>

DeleteMeeting == DeleteMeetingBy(Admins)
DeleteMeetingByAny == DeleteMeetingBy(Tokens)

\* POST /api/meetings/:id/archive
ArchiveMeeting ==
    /\ Authorized
    /\ \E id \in MeetingIds :
        IF id \notin DOMAIN meetings THEN Rejected("archiveMeeting", id, 404)
        ELSE /\ meetings' = [meetings EXCEPT ![id].archived = TRUE,
                                             ![id].archivedAt = Some(now)]
             /\ res' = Res("archiveMeeting", id, 200)
             /\ Served
             /\ UNCHANGED <<logs, nextId, now, ticks, hist>>
             /\ UNCHANGED <<nextMeetingId, points, nextPointId, threadVars, sweepVars>>

\* the where clauses of GET /api/meetings/upcoming and GET /api/meetings/archived
UpcomingMeetings(table, t) ==
    {m \in DOMAIN table : table[m].scheduledAt >= t /\ table[m].archived = FALSE}

ArchivedMeetings(table) == {m \in DOMAIN table : table[m].archived = TRUE}

\* GET /api/meetings/upcoming: by scheduledAt asc
GetUpcomingMeetings ==
    /\ Authorized
    /\ LET found == UpcomingMeetings(meetings, now)
       IN \E list \in OrderedDesc(found, [m \in found |-> 0 - meetings[m].scheduledAt]) :
             res' = [Res("getUpcoming", 0, 200) EXCEPT !.list = list]
    /\ Served
    /\ UNCHANGED <<logs, nextId, now, ticks, hist>>
    /\ UNCHANGED <<threadVars, meetingVars, sweepVars>>

\* GET /api/meetings/archived: by archivedAt desc
GetArchivedMeetings ==
    /\ Authorized
    /\ LET found == ArchivedMeetings(meetings)
       IN \E list \in OrderedDesc(found, [m \in found |-> ValueOf(meetings[m].archivedAt)]) :
             res' = [Res("getArchivedMeetings", 0, 200) EXCEPT !.list = list]
    /\ Served
    /\ UNCHANGED <<logs, nextId, now, ticks, hist>>
    /\ UNCHANGED <<threadVars, meetingVars, sweepVars>>

\* the bodies of POST /api/meetings/:id/points
PointBodies ==
    {[title |-> <<"p">>, description |-> <<"d">>, author |-> <<"e">>],
     [title |-> <<"p">>, description |-> Absent, author |-> Absent]}

\* description || '' and value || null, for the nullable TEXT columns
OrEmpty(s) == IF Truthy(s) THEN Some(s) ELSE Some(<<>>)
OrNull(s) == IF Truthy(s) THEN Some(s) ELSE Null

\* the columns the create does not set take the defaults of the migration:
\* completed false, completedAt NULL, notes ''
PointData(id, body) ==
    [title |-> body.title, description |-> OrEmpty(body.description),
     author |-> body.author, meetingId |-> id,
     completed |-> FALSE, completedAt |-> Null, notes |-> Some(<<>>)]

\* POST /api/meetings/:id/points: 500 on the foreign key
AddPoint ==
    /\ Authorized
    /\ \E id \in MeetingIds, body \in PointBodies :
        IF ~Truthy(body.title) \/ ~Truthy(body.author) THEN Rejected("addPoint", id, 400)
        ELSE IF id \notin DOMAIN meetings THEN Rejected("addPoint", id, 500)
        ELSE /\ nextPointId <= MaxRows
             /\ points' = [p \in DOMAIN points \cup {nextPointId} |->
                    IF p = nextPointId THEN PointData(id, body) ELSE points[p]]
             /\ nextPointId' = nextPointId + 1
             /\ res' = [Res("addPoint", nextPointId, 200) EXCEPT !.meetingId = id]
             /\ UNCHANGED <<logs, nextId, now, ticks, ops, hist>>
             /\ UNCHANGED <<meetings, nextMeetingId, threadVars, sweepVars>>

\* the bodies of PUT /api/meetings/:id/points/:pointId; completed is whatever the
\* JSON carried: nothing, true, false, or a value that is not a boolean
NoEdit ==
    [title |-> Absent, description |-> Absent, author |-> Absent,
     completed |-> "undefined", notes |-> Absent]

PointEdits ==
    {[NoEdit EXCEPT !.completed = "true"],
     [NoEdit EXCEPT !.completed = "false"],
     [NoEdit EXCEPT !.title = <<"q">>, !.author = <<"e">>],
     [NoEdit EXCEPT !.title = <<"q">>, !.completed = "true"],
     [NoEdit EXCEPT !.completed = "yes"]}

\* the bodies the client sends (handleToggleComplete, handleSaveNotes, the edit
\* form), one field group at a time
FieldEdits ==
    {[NoEdit EXCEPT !.completed = "true"],
     [NoEdit EXCEPT !.notes = <<"n">>],
     [NoEdit EXCEPT !.notes = <<>>],
     [NoEdit EXCEPT !.description = <<>>],
     [NoEdit EXCEPT !.title = <<"q">>, !.author = <<"e">>]}

\* what the update accepts for the Boolean column, and JavaScript's reading of it
IsBoolean(v) == v \in {"true", "false"}
TruthyValue(v) == v \notin {"false", "undefined"}

\* faulty variant: completed is written without completedAt
PointUpdateDataNoStamp(point, body, t) ==
    [point EXCEPT
        !.title = IF body.title # Absent THEN body.title ELSE @,
        !.author = IF body.author # Absent THEN body.author ELSE @,
        !.description = IF body.description # Absent THEN OrNull(body.description) ELSE @,
        !.completed = IF body.completed # "undefined" THEN body.completed = "true" ELSE @,
        !.notes = IF body.notes # Absent THEN OrNull(body.notes) ELSE @]

\* faulty variant: description || null and notes || null are written whether or
\* not the body carries the field
PointUpdateDataClearsOmitted(point, body, t) ==
    [point EXCEPT
        !.title = IF body.title # Absent THEN body.title ELSE @,
        !.description = OrNull(body.description),
        !.author = IF body.author # Absent THEN body.author ELSE @,
        !.completed = IF body.completed # "undefined" THEN body.completed = "true" ELSE @,
        !.completedAt = IF body.completed # "undefined"
                        THEN (IF TruthyValue(body.completed) THEN Some(t) ELSE Null)
                        ELSE @,
        !.notes = OrNull(body.notes)]

\* updateData, applied to the row
PointUpdateData(point, body, t) ==
    [point EXCEPT
        !.title = IF body.title # Absent THEN body.title ELSE @,
        !.description = IF body.description # Absent THEN OrNull(body.description) ELSE @,
        !.author = IF body.author # Absent THEN body.author ELSE @,
        !.completed = IF body.completed # "undefined" THEN body.completed = "true" ELSE @,
        !.completedAt = IF body.completed # "undefined"
                        THEN (IF TruthyValue(body.completed) THEN Some(t) ELSE Null)
                        ELSE @,
        !.notes = IF body.notes # Absent THEN OrNull(body.notes) ELSE @]

\* PUT /api/meetings/:id/points/:pointId: 500 when the update throws, on a value
\* that is not a boolean or on a missing row
EditPointOf(ids, bodies) ==
    /\ Authorized
    /\ \E meetingId \in ids, id \in PointIds, body \in bodies :
        IF body.title # Absent /\ (~Truthy(body.title) \/ ~Truthy(body.author))
        THEN Rejected("editPoint", id, 400)
        ELSE IF (body.completed # "undefined" /\ ~IsBoolean(body.completed))
                \/ id \notin DOMAIN points
        THEN Rejected("editPoint", id, 500)
        ELSE /\ points' = [points EXCEPT ![id] = PointUpdateData(points[id], body, now)]
             /\ res' = [Res("editPoint", id, 200) EXCEPT !.arg = body, !.meetingId = meetingId]
             /\ Served
             /\ UNCHANGED <<logs, nextId, now, ticks, hist>>
             /\ UNCHANGED <<meetings, nextMeetingId, nextPointId, threadVars, sweepVars>>

EditPoint == EditPointOf(OneMeeting, PointEdits)

\* the same request: with the bodies of the client, through either meeting
EditPointFields == EditPointOf(OneMeeting, FieldEdits)
EditPointThrough == EditPointOf(MeetingIds, FieldEdits)

\* DELETE /api/meetings/:id/points/:pointId
DeletePointOf(ids) ==
    /\ Authorized
    /\ \E meetingId \in ids, id \in PointIds :
        IF id \notin DOMAIN points THEN Rejected("deletePoint", id, 500)
        ELSE /\ points' = [p \in DOMAIN points \ {id} |-> points[p]]
             /\ res' = [Res("deletePoint", id, 200) EXCEPT !.meetingId = meetingId]
             /\ Served
             /\ UNCHANGED <<logs, nextId, now, ticks, hist>>
             /\ UNCHANGED <<meetings, nextMeetingId, nextPointId, threadVars, sweepVars>>

DeletePoint == DeletePointOf(OneMeeting)
DeletePointThrough == DeletePointOf(MeetingIds)

MeetingNext ==
    \/ Tick
    \/ CreateMeeting
    \/ DeleteMeeting
    \/ AddPoint
    \/ EditPoint
    \/ DeletePoint

MeetingSpec == Init /\ [][MeetingNext]_vars

\* the edits of the points of a meeting, field by field
FieldNext ==
    \/ CreateMeeting
    \/ AddPoint
    \/ EditPointFields

FieldSpec == Init /\ [][FieldNext]_vars

\* the points of two meetings, each request through either meeting
ScopeNext ==
    \/ CreateMeetings
    \/ AddPoint
    \/ EditPointThrough
    \/ DeletePointThrough

ScopeSpec == Init /\ [][ScopeNext]_vars

\* the meetings from their scheduling to the archive, and their points
ArchiveNext ==
    \/ Tick
    \/ ScheduleMeeting
    \/ UpdateMeeting
    \/ DeleteMeeting
    \/ ArchiveMeeting
    \/ GetUpcomingMeetings
    \/ GetArchivedMeetings
    \/ AddPoint
    \/ EditPoint
    \/ DeletePoint

ArchiveSpec == Init /\ [][ArchiveNext]_vars

----------------------------------------------------------------------------
(* The routes of the administrator, and the routes without a middleware *)

\* the posts in gone leave the store, with the rows that hang on them
DeleteLogs(gone) ==
    LET lost == CascadeComments(comments,
                    {c \in DOMAIN comments : comments[c].logId \in gone}) IN
    /\ logs' = [i \in DOMAIN logs \ gone |-> logs[i]]
    /\ hist' = [i \in DOMAIN logs \ gone |-> hist[i]]
    /\ signatures' = SelectSeq(signatures, LAMBDA g : g.logId \notin gone)
    /\ comments' = [c \in DOMAIN comments \ lost |-> comments[c]]
    /\ reactions' = SelectSeq(reactions, LAMBDA r : r.logId \notin gone)

\* DELETE /api/admin/logs/:id
AdminDeleteLog ==
    \E tok \in Tokens, id \in LogIds :
      /\ authenticateToken(tok) = 0
      /\ IF id \notin DOMAIN logs THEN RejectedFor(tok, "adminDelete", id, 500)
         ELSE /\ DeleteLogs({id})
              /\ res' = [Res("adminDelete", id, 200) EXCEPT !.tok = tok]
              /\ Served
              /\ UNCHANGED <<nextId, now, ticks>>
              /\ UNCHANGED <<nextCommentId, meetingVars, sweepVars>>

\* GET /api/admin/overview: the counts of posts (all, pinned, archived, active),
\* comments, signatures and reactions
AdminOverview ==
    \E tok \in Tokens :
      /\ authenticateToken(tok) = 0
      /\ res' = [Res("adminOverview", 0, 200) EXCEPT
                    !.tok = tok,
                    !.list = <<Cardinality(DOMAIN logs),
                               Cardinality({i \in DOMAIN logs : logs[i].pinned = TRUE}),
                               Cardinality({i \in DOMAIN logs : logs[i].archived = TRUE}),
                               Cardinality({i \in DOMAIN logs : logs[i].archived = FALSE}),
                               Cardinality(DOMAIN comments), Len(signatures), Len(reactions)>>]
      /\ Served
      /\ UNCHANGED <<logs, nextId, now, ticks, hist>>
      /\ UNCHANGED <<threadVars, meetingVars, sweepVars>>

\* GET /api/admin/logs: every post, by createdAt desc
AdminLogs ==
    \E tok \in Tokens :
      /\ authenticateToken(tok) = 0
      /\ \E list \in OrderedDesc(DOMAIN logs, [i \in DOMAIN logs |-> logs[i].createdAt]) :
            res' = [Res("adminLogs", 0, 200) EXCEPT !.tok = tok, !.list = list]
      /\ Served
      /\ UNCHANGED <<logs, nextId, now, ticks, hist>>
      /\ UNCHANGED <<threadVars, meetingVars, sweepVars>>

\* process.env.NODE_ENV
NodeEnvs == {"production", "development"}

\* the titles of the test data, the first letter for each; the ages the seeding
\* draws for a post: none, or more than 30 days
TestTitles == {<<"N">>, <<"U">>}
SeedAges == {0, (ARCHIVE_DAYS + 1) * MS_PER_DAY}

\* the data of a create of POST /api/seed-test-data
SeedData(title, date, shouldArchive, t) ==
    [title |-> title, message |-> <<"K">>, author |-> <<"A">>, version |-> AppVersion,
     imageUrl |-> Null, createdAt |-> date, pinned |-> FALSE, unpinnedAt |-> Null,
     archived |-> shouldArchive, archivedAt |-> IF shouldArchive THEN Some(t) ELSE Null]

\* POST /api/seed-test-data, no middleware: one create of its loop, as far as
\* the bound on the posts lets it go
SeedTestData ==
    \E tok \in Tokens, env \in NodeEnvs :
      IF env = "production"
      THEN RejectedFor(tok, "seedTestData", 0, 403)
      ELSE \E title \in TestTitles, age \in SeedAges, random \in BOOLEAN :
             LET date == now - age
                 daysSinceCreated == now - date
                 shouldArchive == daysSinceCreated > ARCHIVE_DAYS * MS_PER_DAY /\ random
             IN /\ nextId <= MaxLogs
                /\ logs' = [id \in DOMAIN logs \cup {nextId} |->
                       IF id = nextId THEN SeedData(title, date, shouldArchive, now)
                       ELSE logs[id]]
                /\ hist' = [id \in DOMAIN logs \cup {nextId} |->
                       IF id = nextId THEN NewHist ELSE hist[id]]
                /\ nextId' = nextId + 1
                /\ res' = [Res("seedTestData", nextId, 200) EXCEPT !.tok = tok]
                /\ Served
                /\ UNCHANGED <<now, ticks>>
                /\ UNCHANGED <<threadVars, meetingVars, sweepVars>>

\* POST /api/clear-test-data, no middleware: deleteMany of the posts with a test title
ClearTestData ==
    \E tok \in Tokens, env \in NodeEnvs :
      IF env = "production"
      THEN RejectedFor(tok, "clearTestData", 0, 403)
      ELSE /\ DeleteLogs({id \in DOMAIN logs : logs[id].title \in TestTitles})
           /\ res' = [Res("clearTestData", 0, 200) EXCEPT !.tok = tok]
           /\ Served
           /\ UNCHANGED <<nextId, now, ticks>>
           /\ UNCHANGED <<nextCommentId, meetingVars, sweepVars>>

AdminNext ==
    \/ Unauthorized
    \/ AdminUnauthorized
    \/ CreateLog
    \/ AdminDeleteLog
    \/ AdminOverview
    \/ AdminLogs
    \/ CreateMeetingByAny
    \/ UpdateMeetingByAny
    \/ DeleteMeetingByAny
    \/ SeedTestData
    \/ ClearTestData

AdminSpec == Init /\ [][AdminNext]_vars

----------------------------------------------------------------------------
(* GET /api/logs, statement by statement *)

\* the request reaches autoArchiveOldPosts, which reads the clock and issues
\* its updateMany
BeginGetLogs(r) ==
    /\ Authorized
    /\ sweeps[r].pc = "idle"
    /\ ops + InFlight < MaxOps
    /\ sweeps' = [sweeps EXCEPT ![r] = [pc |-> "sweep", t |-> now, todo |-> DOMAIN logs]]
    /\ batch' = IF NoSweep /\ ~(res.op = "getLogs" /\ now = batch.t)
                THEN [table |-> logs, t |-> now, same |-> TRUE, runs |-> 1,
                      overlap |-> FALSE, by |-> {}]
                ELSE [batch EXCEPT !.same = @ /\ now = batch.t,
                                   !.runs = @ + 1,
                                   !.overlap = @ \/ ~NoSweep]
    /\ res' = NoRes
    /\ UNCHANGED <<logs, nextId, now, ticks, ops, hist, threadVars, meetingVars>>
    /\ UNCHANGED <<pins, toggles>>

\* the store applies the updateMany to one row: the where clause is evaluated on
\* the row as it is now, and the row is written if it matches
SweepRow(r) ==
    /\ sweeps[r].pc = "sweep"
    /\ \E id \in sweeps[r].todo :
         LET t == sweeps[r].t
             cutoffDate == t - ARCHIVE_DAYS * MS_PER_DAY
             hit == id \in DOMAIN logs /\ SweepMatches(logs[id], cutoffDate)
         IN /\ logs' = IF hit
                       THEN [logs EXCEPT ![id].archived = TRUE, ![id].archivedAt = Some(t)]
                       ELSE logs
            /\ sweeps' = [sweeps EXCEPT ![r].todo = @ \ {id}]
            /\ batch' = IF hit THEN [batch EXCEPT !.by = @ \cup {r}] ELSE batch
    /\ res' = NoRes
    /\ UNCHANGED <<nextId, now, ticks, ops, hist, threadVars, meetingVars>>
    /\ UNCHANGED <<pins, toggles>>

\* the updateMany is done: findMany of the active rows, and the response
EndGetLogs(r) ==
    /\ sweeps[r].pc = "sweep"
    /\ sweeps[r].todo = {}
    /\ LET active == {id \in DOMAIN logs : logs[id].archived = FALSE}
       IN \E list \in OrderedDesc(active, [id \in active |-> logs[id].createdAt]) :
             res' = [Res("getLogs", 0, 200) EXCEPT !.list = list]
    /\ sweeps' = [sweeps EXCEPT ![r] = Idle]
    /\ Served
    /\ UNCHANGED <<logs, nextId, now, ticks, hist, batch, threadVars, meetingVars>>
    /\ UNCHANGED <<pins, toggles>>

\* the other requests are served while no GET /api/logs is in flight
SweepNext ==
    \/ Tick
    \/ NoSweep /\ CreateLog
    \/ NoSweep /\ TogglePin
    \/ NoSweep /\ ArchiveLog
    \/ \E r \in Requests : BeginGetLogs(r)
    \/ \E r \in Requests : SweepRow(r)
    \/ \E r \in Requests : EndGetLogs(r)

SweepSpec == Init /\ [][SweepNext]_vars

----------------------------------------------------------------------------
(* POST /api/logs/:id/pin, statement by statement *)

\* findUnique: 404 when there is no such post, else the handler holds the row
BeginTogglePin(r) ==
    /\ Authorized
    /\ pins[r].pc = "idle"
    /\ ops + PinsInFlight < MaxOps
    /\ \E id \in LogIds :
        IF id \notin DOMAIN logs THEN Rejected("pin", id, 404)
        ELSE /\ pins' = [pins EXCEPT ![r] = [pc |-> "read", id |-> id, log |-> logs[id]]]
             /\ toggles' = IF Pinning(id) = {}
                           THEN [id |-> id, before |-> logs[id], n |-> 1,
                                 overlap |-> FALSE, done |-> 0]
                           ELSE IF id = toggles.id
                           THEN [toggles EXCEPT !.n = @ + 1, !.overlap = TRUE]
                           ELSE toggles
             /\ res' = NoRes
             /\ UNCHANGED <<logs, nextId, now, ticks, ops, hist>>
             /\ UNCHANGED <<threadVars, meetingVars, sweeps, batch>>

\* new Date(), then update: pinned and unpinnedAt are computed from the row the
\* handler holds; 500 when the post is gone
EndTogglePin(r) ==
    /\ pins[r].pc = "read"
    /\ LET id == pins[r].id
           log == pins[r].log
           op == IF log.pinned THEN "unpin" ELSE "pin"
           data == PinData(log, now)
       IN IF id \notin DOMAIN logs
          THEN /\ res' = Res("pin", id, 500)
               /\ UNCHANGED <<logs, hist, toggles>>
          ELSE /\ logs' = [logs EXCEPT ![id].pinned = data.pinned,
                                       ![id].unpinnedAt = data.unpinnedAt]
               /\ hist' = [hist EXCEPT ![id].timerOp = op,
                                       ![id].timerAt = now,
                                       ![id].everUnpinned = @ \/ op = "unpin"]
               /\ toggles' = IF id = toggles.id THEN [toggles EXCEPT !.done = @ + 1]
                             ELSE toggles
               /\ res' = [Res("pin", id, 200) EXCEPT !.flag = UnpinningOldPost(log, now)]
    /\ pins' = [pins EXCEPT ![r] = NotPinning]
    /\ Served
    /\ UNCHANGED <<nextId, now, ticks, threadVars, meetingVars, sweeps, batch>>

\* the other requests; a post is archived while no request to pin is in flight
PinNext ==
    \/ Tick
    \/ CreateLog
    \/ GetLogs
    \/ NoPin /\ ArchiveLog
    \/ \E r \in Requests : BeginTogglePin(r)
    \/ \E r \in Requests : EndTogglePin(r)

PinSpec == Init /\ [][PinNext]_vars

Next ==
    \/ Tick
    \/ Unauthorized
    \/ CreateLog
    \/ EditLog
    \/ TogglePin
    \/ ArchiveLog
    \/ UnarchiveLog
    \/ DeleteLog
    \/ GetLogs
    \/ GetArchivedLogs

Spec == Init /\ [][Next]_vars

TypeOK ==
    /\ DOMAIN logs \subseteq 1..MaxLogs
    /\ DOMAIN hist = DOMAIN logs
    /\ nextId \in 1..(MaxLogs + 1)
    /\ ticks \in 0..MaxTicks
    /\ ops \in 0..MaxOps

----------------------------------------------------------------------------
(* Vocabulary of the claims *)

Period == ARCHIVE_DAYS * MS_PER_DAY

\* the archive-reference timestamp of a post
Reference(log) == IF log.unpinnedAt # Null THEN ValueOf(log.unpinnedAt) ELSE log.createdAt

\* the step just taken answered request op with 200
Answered(op) == res'.op = op /\ res'.status = 200

\* every row but id is as it was, and no row appeared or disappeared
OthersUnchanged(id) ==
    /\ DOMAIN logs' = DOMAIN logs
    /\ \A j \in DOMAIN logs \ {id} : logs'[j] = logs[j]

\* the sweep of this step archives row id
SweepArchives(id) ==
    /\ Answered("getLogs")
    /\ logs[id].archived = FALSE
    /\ logs'[id].archived = TRUE

----------------------------------------------------------------------------
(* C1: in every reachable state, every archived post is unpinned.          *)
(* Violated: POST /api/logs/:id/pin on an archived post flips pinned to    *)
(* true and leaves archived = true.                                        *)

C1_ArchivedImpliesUnpinned ==
    \A id \in DOMAIN logs : logs[id].archived = TRUE => logs[id].pinned = FALSE

----------------------------------------------------------------------------
(* C2: the sweep run at time now archives (archived = true, archivedAt =   *)
(* now) exactly the posts that are unarchived, unpinned and whose          *)
(* reference is 30 days old or older, the post whose reference is exactly  *)
(* 30 days old included, and changes nothing else.                         *)
(* Violated: the where clause compares with "lt cutoffDate", so a post     *)
(* whose reference is exactly 30 days old is left active.                  *)

C2_ClaimedTarget(log) ==
    /\ log.archived = FALSE
    /\ log.pinned = FALSE
    /\ now - Reference(log) >= Period

C2_SweepArchivesFromThirtyDays ==
    [][Answered("getLogs") =>
         /\ DOMAIN logs' = DOMAIN logs
         /\ \A id \in DOMAIN logs :
              logs'[id] = IF C2_ClaimedTarget(logs[id])
                          THEN [logs[id] EXCEPT !.archived = TRUE, !.archivedAt = Some(now)]
                          ELSE logs[id]]_vars

----------------------------------------------------------------------------
(* C3: every post that GET /api/logs returns is unarchived and, unless it  *)
(* is pinned, has a reference less than 30 days before the request; and a  *)
(* post created 31 days ago, never pinned and not archived, is not         *)
(* returned and is archived, so that GET /api/logs/archived returns it.    *)
(* Violated through C2: an unpinned post whose reference is exactly 30     *)
(* days old is returned.                                                   *)

InList(id, list) == \E i \in 1..Len(list) : list[i] = id

C3_ActiveListIsFresh ==
    [][Answered("getLogs") =>
         /\ \A id \in DOMAIN logs' :
              InList(id, res'.list) =>
                /\ logs'[id].archived = FALSE
                /\ logs'[id].pinned = FALSE => now - Reference(logs'[id]) < Period
         /\ \A id \in DOMAIN logs :
              (/\ now - logs[id].createdAt = 31 * MS_PER_DAY
               /\ logs[id].unpinnedAt = Null
               /\ logs[id].pinned = FALSE
               /\ logs[id].archived = FALSE)
              => ~InList(id, res'.list) /\ logs'[id].archived = TRUE]_vars

\* GET /api/logs/archived returns exactly the archived posts
C3_ArchivedListIsArchived ==
    [][Answered("getArchived") =>
         \A id \in DOMAIN logs : InList(id, res'.list) <=> logs[id].archived = TRUE]_vars

----------------------------------------------------------------------------
(* C4: after togglePin has unpinned a post at time t, and until it is      *)
(* pinned or unpinned again or unarchived, a sweep at time t' archives it  *)
(* only if t' - t >= 30 days, whatever its createdAt: a sweep right after  *)
(* pin-then-unpin leaves the post active.  (Edits in between are allowed,  *)
(* which is more than the claim asks.)                                     *)

C4_SweepAfterUnpinWaitsThirtyDays ==
    [][\A id \in DOMAIN logs :
         (hist[id].timerOp = "unpin" /\ SweepArchives(id))
         => now - hist[id].timerAt >= Period]_vars

\* an old post, unpinned just now, has been through the sweep and is still active
C4_Witness ==
    /\ res.op = "getLogs"
    /\ res.status = 200
    /\ \E id \in DOMAIN logs :
         /\ hist[id].timerOp = "unpin"
         /\ hist[id].timerAt = now
         /\ now - logs[id].createdAt > Period
         /\ logs[id].archived = FALSE
         /\ InList(id, res.list)

----------------------------------------------------------------------------
(* C5: in every reachable state and for every post, archivedAt is non-null *)
(* if and only if archived is true.                                        *)

C5_ArchivedAtIffArchived ==
    \A id \in DOMAIN logs : (logs[id].archivedAt # Null) <=> (logs[id].archived = TRUE)

\* a post that was unarchived and then archived again by the sweep
C5_Witness ==
    /\ res.op = "getLogs"
    /\ \E id \in DOMAIN logs :
         /\ hist[id].unarchivedAt # Null
         /\ logs[id].archived = TRUE
         /\ logs[id].archivedAt = Some(now)

----------------------------------------------------------------------------
(* C6, as claimed: unpinnedAt is non-null if and only if the post is       *)
(* unpinned and was explicitly unpinned at some point.                     *)
(* Violated: unarchive stamps unpinnedAt = now on a post that togglePin    *)
(* never unpinned.                                                         *)

C6_UnpinnedAtIffExplicitlyUnpinned ==
    \A id \in DOMAIN logs :
        (logs[id].unpinnedAt # Null)
        <=> (logs[id].pinned = FALSE /\ hist[id].everUnpinned)

(* C6, amended: unpinnedAt is non-null if and only if the last of the      *)
(* togglePin and unarchive operations applied to the post was an unpin or  *)
(* an unarchive; so a pinned post has a non-null unpinnedAt only when      *)
(* unarchive was applied to it after it was last pinned.                   *)

C6_UnpinnedAtIffTimerRestarted ==
    \A id \in DOMAIN logs :
        /\ (logs[id].unpinnedAt # Null) <=> (hist[id].timerOp \in {"unpin", "unarchive"})
        /\ (logs[id].pinned = TRUE /\ logs[id].unpinnedAt # Null)
           => hist[id].timerOp = "unarchive"

\* an unarchived post that togglePin never unpinned carries unpinnedAt
C6_Witness ==
    /\ res.op = "unarchive"
    /\ res.status = 200
    /\ res.id \in DOMAIN logs
    /\ logs[res.id].unpinnedAt = Some(now)
    /\ hist[res.id].everUnpinned = FALSE

----------------------------------------------------------------------------
(* C7: togglePin on an existing post negates pinned, sets unpinnedAt = now *)
(* when the post was pinned and unpinnedAt = null when it was not, and     *)
(* leaves every other field of the post and every other post unchanged.    *)

C7_TogglePinEffect ==
    [][Answered("pin") =>
         LET id == res'.id IN
         /\ id \in DOMAIN logs
         /\ logs'[id] = [logs[id] EXCEPT
                !.pinned = ~logs[id].pinned,
                !.unpinnedAt = IF logs[id].pinned = TRUE THEN Some(now) ELSE Null]
         /\ OthersUnchanged(id)]_vars

\* an unpin has just been answered while another post exists
C7_Witness ==
    /\ res.op = "pin"
    /\ res.status = 200
    /\ res.id \in DOMAIN logs
    /\ logs[res.id].pinned = FALSE
    /\ logs[res.id].unpinnedAt = Some(now)
    /\ logs[res.id].title # <<>>
    /\ Cardinality(DOMAIN logs) = 2

----------------------------------------------------------------------------
(* C8: the _unpinningOldPost flag of togglePin's response is true exactly  *)
(* when the call unpins a post whose createdAt is 30 or more days before   *)
(* the call.                                                               *)

C8_OldPostSignal ==
    [][Answered("pin") =>
         LET id == res'.id IN
         res'.flag = (logs[id].pinned = TRUE /\ now - logs[id].createdAt >= Period)]_vars

\* the flag was raised for a post created exactly 30 days before the unpin
C8_Witness ==
    /\ res.op = "pin"
    /\ res.status = 200
    /\ res.flag = TRUE
    /\ res.id \in DOMAIN logs
    /\ now - logs[res.id].createdAt = Period

----------------------------------------------------------------------------
(* C9: archive on an existing post sets archived = true, archivedAt = now  *)
(* and pinned = false whatever its state, touching nothing else; applied   *)
(* to a post that archive has already archived it changes archivedAt only. *)

C9_ArchiveEffect ==
    [][Answered("archive") =>
         LET id == res'.id IN
         /\ id \in DOMAIN logs
         /\ logs'[id] = [logs[id] EXCEPT
                !.archived = TRUE, !.archivedAt = Some(now), !.pinned = FALSE]
         /\ OthersUnchanged(id)
         /\ (logs[id].archived = TRUE /\ logs[id].pinned = FALSE)
            => logs'[id] = [logs[id] EXCEPT !.archivedAt = Some(now)]]_vars

\* archive has just been applied to a post that was pinned
C9_Witness ==
    /\ res.op = "archive"
    /\ res.status = 200
    /\ res.id \in DOMAIN logs
    /\ hist[res.id].timerOp = "pin"
    /\ logs[res.id].pinned = FALSE
    /\ logs[res.id].archived = TRUE

----------------------------------------------------------------------------
(* C10: unarchive of an existing post at time t leaves archived = false,   *)
(* archivedAt = null and unpinnedAt = t, and no sweep before t + 30 days   *)
(* archives the post again, however old its createdAt.                     *)

C10_UnarchiveRestartsCountdown ==
    [][/\ Answered("unarchive") =>
            LET id == res'.id IN
            /\ id \in DOMAIN logs
            /\ logs'[id].archived = FALSE
            /\ logs'[id].archivedAt = Null
            /\ logs'[id].unpinnedAt = Some(now)
       /\ \A id \in DOMAIN logs :
            (hist[id].unarchivedAt # Null /\ SweepArchives(id))
            => now - ValueOf(hist[id].unarchivedAt) >= Period]_vars

\* a post older than 30 days, unarchived less than 30 days ago, survives a sweep
C10_Witness ==
    /\ res.op = "getLogs"
    /\ res.status = 200
    /\ \E id \in DOMAIN logs :
         /\ hist[id].unarchivedAt # Null
         /\ now - ValueOf(hist[id].unarchivedAt) < Period
         /\ now - logs[id].createdAt > Period
         /\ logs[id].archived = FALSE
         /\ InList(id, res.list)

----------------------------------------------------------------------------
(* C11: GET /api/logs requests that run one after the other with nothing   *)
(* in between, or that overlap, and that all read the same clock value t,  *)
(* leave the store as one sweep at t leaves it; a sweep never modifies a   *)
(* row that is already archived; and a sweep applied to a swept table      *)
(* changes nothing.                                                        *)

\* this step is one row of some request's updateMany
SweepRowStep ==
    \E r \in Requests :
        /\ sweeps[r].pc = "sweep"
        /\ sweeps'[r].pc = "sweep"
        /\ sweeps'[r].todo # sweeps[r].todo

C11_BatchIsOneSweep ==
    (NoSweep /\ res.op = "getLogs" /\ batch.same)
    => logs = autoArchiveOldPosts(batch.table, batch.t)

C11_SweepIdempotent ==
    [][/\ SweepRowStep =>
            \A id \in DOMAIN logs : logs[id].archived = TRUE => logs'[id] = logs[id]
       /\ C11_BatchIsOneSweep'
       /\ autoArchiveOldPosts(autoArchiveOldPosts(logs, now), now)
            = autoArchiveOldPosts(logs, now)]_vars

\* two overlapping requests at one clock value have each archived a row
C11_Witness ==
    /\ NoSweep
    /\ res.op = "getLogs"
    /\ batch.same
    /\ batch.overlap
    /\ batch.by = Requests
    /\ \A id \in DOMAIN logs : logs[id].archived = TRUE /\ batch.table[id].archived = FALSE

\* a request that follows another at the same clock value finds nothing to do
C11_WitnessInSuccession ==
    /\ NoSweep
    /\ res.op = "getLogs"
    /\ batch.same
    /\ ~batch.overlap
    /\ batch.runs = 2
    /\ logs # batch.table

----------------------------------------------------------------------------
(* C12: there is at most one signature per (logId, name); a sign request   *)
(* for an existing post answers 201 and adds the row when no row has its   *)
(* post and its trimmed name, and answers 409 and adds nothing when one    *)
(* has, so that every repeat is a conflict and another name succeeds.  The *)
(* handler is one INSERT, which the unique index decides atomically, so    *)
(* requests in flight together are requests in some order.                 *)

C12_OnePerPostAndName ==
    \A i \in 1..Len(signatures) : \A j \in 1..Len(signatures) :
        (signatures[i].logId = signatures[j].logId /\ signatures[i].name = signatures[j].name)
        => i = j

C12_SignOncePerName ==
    [][/\ (res'.op = "sign" /\ res'.status \in {201, 409}) =>
            LET row == [logId |-> res'.id, name |-> res'.arg]
                had == \E i \in 1..Len(signatures) : signatures[i] = row
            IN /\ (res'.status = 409) <=> had
               /\ had => signatures' = signatures
               /\ ~had => signatures' = Append(signatures, row)
       /\ (res'.op = "sign" /\ res'.status = 500) => res'.id \notin DOMAIN logs
       /\ C12_OnePerPostAndName']_vars

\* a repeat has just been refused on a post that two names have signed
C12_Witness ==
    /\ res.op = "sign"
    /\ res.status = 409
    /\ \E i \in 1..Len(signatures) : \E j \in 1..Len(signatures) :
         /\ signatures[i].logId = res.id
         /\ signatures[j].logId = res.id
         /\ signatures[i].name = res.arg
         /\ signatures[j].name # res.arg

----------------------------------------------------------------------------
(* Vocabulary of the claims on comments *)

IsReply(c) == comments[c].parentId # Null
ParentOf(c) == ValueOf(comments[c].parentId)
RepliesOf(c) == {d \in DOMAIN comments : IsReply(d) /\ ParentOf(d) = c}

\* every existing comment but those of gone is as it was, and none appeared
CommentsLeft(gone) ==
    /\ DOMAIN comments' = DOMAIN comments \ gone
    /\ \A c \in DOMAIN comments' : comments'[c] = comments[c]

\* nesting is two levels deep; every reply is on the post of its parent
TwoLevels == \A c \in DOMAIN comments : IsReply(c) => ~IsReply(ParentOf(c))
SamePost == \A c \in DOMAIN comments : IsReply(c) => comments[ParentOf(c)].logId = comments[c].logId

----------------------------------------------------------------------------
(* C13: every comment with a parentId references a comment that has none,  *)
(* and addComment whose parentId is the id of a reply is rejected and      *)
(* stores nothing.                                                         *)
(* Violated: the handler passes parentId to the insert unexamined, and the *)
(* foreign key asks only that the parent exists.                           *)

C13_RepliesAreTwoLevels ==
    [][/\ TwoLevels'
       /\ (res'.op = "comment" /\ res'.arg # <<>> /\ res'.arg[1] \in DOMAIN comments
            /\ IsReply(res'.arg[1]))
          => (res'.status # 201 /\ comments' = comments)]_vars

----------------------------------------------------------------------------
(* C14: addComment with a parentId that names no existing comment, or a    *)
(* comment of another post, is rejected and stores nothing; so a reply has *)
(* the logId of its parent.                                                *)
(* Violated: a parentId that names a comment of another post is accepted.  *)

C14_ReplyOnParentsPost ==
    [][/\ SamePost'
       /\ (res'.op = "comment" /\ res'.arg # <<>> /\ res'.arg[1] # 0
            /\ (\/ res'.arg[1] \notin DOMAIN comments
                \/ comments[res'.arg[1]].logId # res'.id))
          => (res'.status # 201 /\ comments' = comments)]_vars

\* the half of C14 that holds: a parentId that names no comment is refused
C14_MissingParentRefused ==
    [][(res'.op = "comment" /\ res'.arg # <<>> /\ res'.arg[1] # 0
        /\ res'.arg[1] \notin DOMAIN comments)
       => (res'.status = 500 /\ comments' = comments)]_vars

----------------------------------------------------------------------------
(* C15: deleteComment of a top-level comment removes it and its replies    *)
(* and nothing else; deleteComment of a reply removes that reply alone.    *)
(* Violated through C13: a reply that has replies of its own takes them    *)
(* with it.                                                                *)

C15_DeleteCommentEffect ==
    [][Answered("deleteComment") =>
         LET id == res'.id IN
         /\ id \in DOMAIN comments
         /\ IF IsReply(id)
            THEN CommentsLeft({id})
            ELSE CommentsLeft({id} \cup RepliesOf(id))
         /\ UNCHANGED <<logs, signatures, reactions>>]_vars

\* C15 holds wherever nesting is two levels deep
C15_HoldsOnTwoLevels ==
    [][(Answered("deleteComment") /\ TwoLevels) =>
         LET id == res'.id IN
         /\ id \in DOMAIN comments
         /\ IF IsReply(id)
            THEN CommentsLeft({id})
            ELSE CommentsLeft({id} \cup RepliesOf(id))
         /\ UNCHANGED <<logs, signatures, reactions>>]_vars

----------------------------------------------------------------------------
(* C16: after delete of an existing post the post is gone, no signature,   *)
(* comment or reaction with its logId remains, and the rows of the other   *)
(* posts are unchanged.  (No request of the server writes LogAttachment.)  *)
(* Violated through C14: a reply on another post goes with its parent.     *)

C16_DeleteCascadesToOwnRows ==
    [][Answered("delete") =>
         LET id == res'.id IN
         /\ id \in DOMAIN logs
         /\ DOMAIN logs' = DOMAIN logs \ {id}
         /\ \A j \in DOMAIN logs' : logs'[j] = logs[j]
         /\ signatures' = SelectSeq(signatures, LAMBDA r : r.logId # id)
         /\ reactions' = SelectSeq(reactions, LAMBDA r : r.logId # id)
         /\ CommentsLeft({c \in DOMAIN comments : comments[c].logId = id})]_vars

\* C16 holds wherever every reply is on the post of its parent
C16_HoldsOnSamePost ==
    [][(Answered("delete") /\ SamePost) =>
         LET id == res'.id IN
         /\ id \in DOMAIN logs
         /\ DOMAIN logs' = DOMAIN logs \ {id}
         /\ \A j \in DOMAIN logs' : logs'[j] = logs[j]
         /\ signatures' = SelectSeq(signatures, LAMBDA r : r.logId # id)
         /\ reactions' = SelectSeq(reactions, LAMBDA r : r.logId # id)
         /\ CommentsLeft({c \in DOMAIN comments : comments[c].logId = id})]_vars

----------------------------------------------------------------------------
(* C17: edit with a message that is blank once markup is stripped (empty,  *)
(* spaces only, tags only) is rejected with 400 and leaves the post        *)
(* unchanged.                                                              *)
(* Violated: the handler tests !message, which only the empty string and a *)
(* missing message fail; the text without markup is computed by the edit   *)
(* form alone.                                                             *)

C17_Blank(message) == message = Absent \/ plainText(message) = <<>>

C17_BlankEditRejected ==
    [][(res'.op = "edit" /\ res'.id \in DOMAIN logs /\ C17_Blank(res'.arg))
       => (res'.status = 400 /\ logs' = logs)]_vars

\* the half of C17 that holds: an edit without message, or with the empty string
C17_EmptyEditRejected ==
    [][(res'.op = "edit" /\ res'.arg \in {Absent, <<>>})
       => (res'.status = 400 /\ logs' = logs)]_vars

----------------------------------------------------------------------------
(* C18: togglePin, archive, unarchive, edit and delete of a post, and      *)
(* deleteComment, given an id that does not exist, are rejected with a     *)
(* not-found answer (404) and leave the store unchanged.  (An edit without *)
(* message is refused with 400 before the id is looked at; the formula     *)
(* lets that pass.)                                                        *)
(* Violated: togglePin alone reads the row first and answers 404; the      *)
(* others let the update or delete throw and answer 500.                   *)

ByIdOps == {"pin", "archive", "unarchive", "edit", "delete"}

\* the step just taken answered a request that named an id the store does not hold
C18_MissingId ==
    \/ res'.op \in ByIdOps /\ res'.id \notin DOMAIN logs
    \/ res'.op = "deleteComment" /\ res'.id \notin DOMAIN comments

StoreUnchanged == UNCHANGED <<logs, nextId, threadVars, meetingVars>>

C18_MissingIdIsNotFound ==
    [][C18_MissingId =>
         /\ res'.status = 404 \/ (res'.op = "edit" /\ res'.status = 400)
         /\ StoreUnchanged]_vars

\* the part of C18 that holds: the request is refused with 404 or 500 (400 for an
\* edit without message) and the store is unchanged
C18_MissingIdIsRefused ==
    [][C18_MissingId =>
         /\ res'.status \in {400, 404, 500}
         /\ res'.op # "edit" => res'.status # 400
         /\ res'.op = "pin" <=> res'.status = 404
         /\ StoreUnchanged]_vars

----------------------------------------------------------------------------
(* C19: the aggregated view of a post's reactions lists each emoji that    *)
(* occurs exactly once, with the number of the post's reaction rows that   *)
(* carry it (one row per successful addReaction), in the order of each     *)
(* emoji's first occurrence.                                               *)
(* Violated: Object.values lists the keys that are array indices first, in *)
(* numeric order, so "2" then "1" is shown as "1", "2".                    *)

\* the emojis of rs, each once, in the order of their first occurrence
RECURSIVE FirstOccurrences(_)
FirstOccurrences(rs) ==
    IF rs = <<>> THEN <<>>
    ELSE LET before == FirstOccurrences(SubSeq(rs, 1, Len(rs) - 1))
             e == rs[Len(rs)].emoji
         IN IF \E i \in 1..Len(before) : before[i] = e THEN before ELSE Append(before, e)

CountOf(rs, e) == Cardinality({i \in 1..Len(rs) : rs[i].emoji = e})

C19_Claimed(rs) ==
    LET first == FirstOccurrences(rs)
    IN [i \in 1..Len(first) |-> [emoji |-> first[i], count |-> CountOf(rs, first[i])]]

C19_GroupsInFirstOccurrenceOrder ==
    [][Answered("reactions") =>
         /\ res'.list = C19_Claimed(ReactionsOf(res'.id))
         /\ reactions' = reactions]_vars

\* every successful addReaction appends one row, and nothing else writes the table
C19_OneRowPerReaction ==
    [][/\ Answered("reactions") =>
            \A e \in Emojis \ {Absent} :
                LET rs == ReactionsOf(res'.id)
                    shown == {i \in 1..Len(res'.list) : res'.list[i].emoji = e}
                IN /\ Cardinality(shown) = IF CountOf(rs, e) > 0 THEN 1 ELSE 0
                   /\ \A i \in shown : res'.list[i].count = CountOf(rs, e)
       /\ (res'.op = "react" /\ res'.status = 201)
            => reactions' = Append(reactions, [emoji |-> res'.arg, logId |-> res'.id])
       /\ (res'.op = "react" /\ res'.status # 201) => reactions' = reactions]_vars

\* the order is the claimed one when no emoji of the post is an array index
C19_OrderHoldsOffIndices ==
    [][(Answered("reactions")
        /\ \A i \in 1..Len(ReactionsOf(res'.id)) : ~IsArrayIndex(ReactionsOf(res'.id)[i].emoji))
       => res'.list = C19_Claimed(ReactionsOf(res'.id))]_vars

----------------------------------------------------------------------------
(* C20: in every reachable state and for every meeting point, completedAt  *)
(* is non-null if and only if completed is true.                           *)

----------------------------------------------------------------------------
(* C21: editPoint changes only the fields its payload carries: a field the *)
(* payload omits keeps its value (title, description, author, notes, and   *)
(* completed together with completedAt), and no other point changes.       *)

C21_EditPointChangesPayloadOnly ==
    [][Answered("editPoint") =>
        LET body == res'.arg
            old == points[res'.id]
            new == points'[res'.id]
        IN /\ body.title = Absent => new.title = old.title
           /\ body.description = Absent => new.description = old.description
           /\ body.author = Absent => new.author = old.author
           /\ body.notes = Absent => new.notes = old.notes
           /\ body.completed = "undefined" =>
                  new.completed = old.completed /\ new.completedAt = old.completedAt
           /\ new.meetingId = old.meetingId
           /\ DOMAIN points' = DOMAIN points
           /\ \A q \in DOMAIN points \ {res'.id} : points'[q] = points[q]]_vars

\* a completed point with a description has just had its notes saved, and they
\* are all the request changed
C21_Witness ==
    /\ res.op = "editPoint"
    /\ res.status = 200
    /\ res.arg = [NoEdit EXCEPT !.notes = <<"n">>]
    /\ res.id \in DOMAIN points
    /\ points[res.id].notes = Some(<<"n">>)
    /\ points[res.id].description = Some(<<"d">>)
    /\ points[res.id].completed = TRUE
    /\ points[res.id].completedAt # Null

----------------------------------------------------------------------------
(* C22: a regular caller's archive request for a meeting whose scheduledAt *)
(* is still in the future is rejected and leaves the meeting as it was,    *)
(* archived = false.                                                       *)
(* Violated: POST /api/meetings/:id/archive never reads scheduledAt.       *)

C22_ArchiveOnlyAfterScheduledAt ==
    [][(/\ res'.op = "archiveMeeting"
        /\ res'.id \in DOMAIN meetings
        /\ meetings[res'.id].scheduledAt > now)
       => res'.status # 200 /\ meetings' = meetings]_vars

----------------------------------------------------------------------------
(* C23: at any time every stored meeting is returned by exactly one of the *)
(* upcoming and the archived queries.                                      *)
(* Violated: a meeting whose scheduledAt has passed and which is not       *)
(* archived is returned by neither.                                        *)

C23_ExactlyOneQuery ==
    \A m \in DOMAIN meetings :
        (m \in UpcomingMeetings(meetings, now)) # (m \in ArchivedMeetings(meetings))

----------------------------------------------------------------------------
(* C24: once a meeting is archived, addPoint, editPoint and deletePoint on *)
(* that meeting change no point.                                           *)
(* Violated: the three routes never read the meeting.                      *)

PointOps == {"addPoint", "editPoint", "deletePoint"}

C24_ArchivedMeetingIsFrozen ==
    [][(/\ res'.op \in PointOps
        /\ res'.meetingId \in DOMAIN meetings
        /\ meetings[res'.meetingId].archived = TRUE)
       => points' = points]_vars

----------------------------------------------------------------------------
(* C25: from every state in which a meeting is archived, an administrator  *)
(* operation leads to a state in which that meeting has archived = false   *)
(* and archivedAt = null, with the points unchanged.                       *)
(* Violated: no route writes archived = false on a meeting.                *)

AdminMeetingOperation == ScheduleMeeting \/ UpdateMeeting \/ DeleteMeeting

C25_AdminCanUnarchive ==
    \A m \in DOMAIN meetings :
        meetings[m].archived = TRUE /\ ops < MaxOps
        => ENABLED (/\ AdminMeetingOperation
                    /\ m \in DOMAIN meetings'
                    /\ meetings'[m].archived = FALSE
                    /\ meetings'[m].archivedAt = Null
                    /\ points' = points)

----------------------------------------------------------------------------
(* C26: a request without a token, with an invalid token or with an        *)
(* expired token is answered 401 or 403 and creates, changes or deletes no *)
(* post, comment, signature, reaction, meeting or meeting point.           *)
(* Violated: POST /api/seed-test-data and POST /api/clear-test-data have   *)
(* no middleware and, outside production, serve any request.               *)

NoValidToken == {"none", "garbage", "expired"}

C26_UnauthorizedIsRejected ==
    [][res'.tok \in NoValidToken
       => res'.status \in {401, 403} /\ StoreUnchanged]_vars

----------------------------------------------------------------------------
(* C27: between the togglePin request that unpins a post and the archive   *)
(* request that follows it, the sweep of a list request can archive the    *)
(* post when 30 days had elapsed since its createdAt at the unpin.         *)
(* Violated: the unpin stamps unpinnedAt, and the sweep counts its 30 days *)
(* from unpinnedAt.  What holds: such a sweep leaves the post active.      *)

\* post id was unpinned by togglePin when it was 30 days old or more, less than
\* 30 days ago, and nothing has pinned or archived it since
AwaitingArchive(id) ==
    /\ hist[id].timerOp = "unpin"
    /\ hist[id].timerAt - logs[id].createdAt >= Period
    /\ now - hist[id].timerAt < Period
    /\ logs[id].pinned = FALSE
    /\ logs[id].archived = FALSE

C27_SweepCanArchiveJustUnpinned ==
    \A id \in DOMAIN logs :
        AwaitingArchive(id) /\ ops < MaxOps
        => ENABLED (GetLogs /\ logs'[id].archived = TRUE)

C27_SweepLeavesJustUnpinned ==
    [][\A id \in DOMAIN logs :
          AwaitingArchive(id) /\ Answered("getLogs")
          => logs'[id].archived = FALSE /\ InList(id, res'.list)]_vars

\* a list request has just been served a day after the unpin of an old post,
\* and the post is still waiting for its archive request
C27_Witness ==
    /\ res.op = "getLogs"
    /\ res.status = 200
    /\ \E id \in DOMAIN logs :
          /\ AwaitingArchive(id)
          /\ now > hist[id].timerAt
          /\ now - logs[id].createdAt > Period
          /\ InList(id, res.list)

----------------------------------------------------------------------------
(* C28: when two togglePin requests on one post are served concurrently,   *)
(* each a read followed by an update, the post ends as after two toggles   *)
(* in a row: pinned as it was before the two requests, and unpinnedAt null *)
(* exactly if it was pinned.                                               *)
(* Violated: both requests read the post before either writes, and both    *)
(* write the negation of the value they read.                              *)

C28_ConcurrentTogglesCompose ==
    (/\ toggles.n = 2
     /\ toggles.overlap
     /\ toggles.done = 2
     /\ res.op = "pin"
     /\ res.status = 200
     /\ res.id = toggles.id)
    => /\ logs[toggles.id].pinned = toggles.before.pinned
       /\ (logs[toggles.id].unpinnedAt = Null) <=> toggles.before.pinned

----------------------------------------------------------------------------
(* C29: editPoint and deletePoint through a meeting (:id) change or delete *)
(* only a point of that meeting: a request whose pointId is a point of     *)
(* another meeting changes nothing.                                        *)
(* Violated: the update and the delete select the row by pointId alone.    *)

C29_PointOfAnotherMeetingUntouched ==
    [][(/\ res'.op \in {"editPoint", "deletePoint"}
        /\ res'.meetingId \in DOMAIN meetings
        /\ res'.id \in DOMAIN points
        /\ points[res'.id].meetingId # res'.meetingId)
       => points' = points]_vars

----------------------------------------------------------------------------
(* C30: a request to an admin-only operation that carries the token of the *)
(* shared password is rejected and changes nothing.                        *)
(* Violated: authenticateToken verifies the signature only, and both       *)
(* tokens are signed with JWT_SECRET.                                      *)

AdminOps == {"adminAuth", "createMeeting", "updateMeeting", "deleteMeeting",
             "adminDelete", "adminOverview", "adminLogs"}

C30_SharedTokenIsNoAdmin ==
    [][res'.op \in AdminOps /\ res'.tok = "shared"
       => res'.status # 200 /\ StoreUnchanged]_vars

====
